---- MODULE Spec2Model ----
(***************************************************************************)
(* A model of packages/boa/lib/index.js: the bridge between the host (JS)  *)
(* object model and the foreign (Python) object model.                     *)
(*                                                                         *)
(* The module holds one state machine per part of the bridge:              *)
(*   SpecWrap   wrap / getDelegator (the Wrap Engine)                      *)
(*   SpecProxy  the proxy's get and set traps                              *)
(*   SpecIter   the Symbol.iterator hook                                   *)
(*   SpecWith   the `with` context-manager adapter                         *)
(*   SpecEval   `eval`                                                     *)
(* Each specification moves its own variables and leaves the others at     *)
(* their initial value.                                                    *)
(***************************************************************************)
EXTENDS Integers, Sequences, FiniteSets, TLC

VARIABLES
  delegators,   \* the registry DelegatorLoader.load() returned (index.js:16)
  proxies,      \* every proxy _internalWrap has built through wrap
  factoryCalls, \* the delegator factory calls of the last operation
  lastWrap,     \* the argument and the result of the last wrap(T) call
  attrs,        \* the attributes of the foreign object behind the proxy
  items,        \* the items of the foreign object behind the proxy
  lastOp,       \* the last trap: its name, its foreign calls, its result
  seq,          \* the foreign sequence behind the iterated proxy
  cap,          \* what the handle's isIterator() and isSequence() answer
  pyPos,        \* the position of the foreign iterator behind T.next()
  iters,        \* the iterator objects proxy[Symbol.iterator]() returned
  mutated,      \* the foreign side has changed seq since the start
  iterError,    \* proxy[Symbol.iterator]() has thrown its TypeError
  wpc,          \* where the one `with` invocation stands
  wcall,        \* the arguments of the `with` invocation and what they do
  wtrace,       \* the events of the invocation, in the order they happened
  wresult,      \* what `with` gave its caller: a throw or a promise's state
  fnPromise,    \* the state of the value fn returned
  hostSteps,    \* how many pieces of other host code have run
  heap,         \* the foreign namespaces; heap[1] is pyInst.globals()
  lastEval      \* the last eval call: its arguments and what it did

wrapVars == <<delegators, proxies, factoryCalls, lastWrap>>
proxyVars == <<attrs, items, lastOp>>
iterVars == <<seq, cap, pyPos, iters, mutated, iterError>>

withVars == <<wpc, wcall, wtrace, wresult, fnPromise, hostSteps>>

evalVars == <<heap, lastEval>>

vars == <<wrapVars, proxyVars, iterVars, withVars, evalVars>>

\* an error value: what was thrown, or "none"
Error(what) == [thrown |-> what]
NoError == Error("none")

\* the arguments of a `with` call: ctx has __enter__ / __exit__ functions;
\* fn is no function, returns a plain value, throws, or returns a promise
\* that resolves or rejects; what __enter__ raises; what fn throws or
\* rejects with
WithArgs(hasEnter, hasExit, fnKind, enterErr, err) ==
  [hasEnter |-> hasEnter, hasExit |-> hasExit, fnKind |-> fnKind,
   enterErr |-> enterErr, err |-> err]

\* `with` before it is called
WithIdle ==
  /\ wpc = "idle"
  /\ wcall = WithArgs(FALSE, FALSE, "notfn", NoError, NoError)
  /\ wtrace = << >>
  /\ wresult = [state |-> "none", err |-> NoError]
  /\ fnPromise = "none"
  /\ hostSteps = 0

\* eval before it is called: the shared global namespace holds no binding
EvalIdle ==
  /\ heap = << {} >>
  /\ lastEval = [shape |-> "none", nstrs |-> 0, params |-> << >>, env |-> 1,
                  code |-> << >>, setitems |-> << >>, before |-> {},
                  execGlobals |-> 1, execLocals |-> 1,
                  result |-> [js |-> "undefined"]]

\* the iterator hook before any proxy has been iterated
IterIdle ==
  /\ seq = << >>
  /\ cap = [iterator |-> FALSE, sequence |-> FALSE]
  /\ pyPos = 0
  /\ iters = << >>
  /\ mutated = FALSE
  /\ iterError = FALSE

(***************************************************************************)
(* Host values and foreign handles                                         *)
(***************************************************************************)

\* host null and undefined
JsNull == [js |-> "null"]
JsUndefined == [js |-> "undefined"]

\* A foreign handle: the (module, name) of its runtime type, what its
\* isCallable() probe answers, and its foreign payload.
Handle(m, n, c, v) == [module |-> m, name |-> n, callable |-> c, val |-> v]

hNone == Handle("builtins", "NoneType", FALSE, "None")
hInt == Handle("builtins", "int", FALSE, "42")
hInt64 == Handle("numpy", "int64", FALSE, "7")
hFloat == Handle("builtins", "float", FALSE, "1.5")
hFloat64 == Handle("numpy", "float64", FALSE, "2.5")
hBool == Handle("builtins", "bool", FALSE, "True")
hStr == Handle("builtins", "str", FALSE, "abc")
hList == Handle("builtins", "list", FALSE, "[1]")
hDict == Handle("builtins", "dict", FALSE, "{}")
hArray == Handle("numpy", "ndarray", FALSE, "array")
hUfunc == Handle("numpy", "ufunc", TRUE, "add")
hFunc == Handle("builtins", "function", TRUE, "f")
hObj == Handle("mylib", "Thing", FALSE, "thing")

\* pyInst.builtins(), the handle of the foreign builtins module
hBuiltins == Handle("builtins", "module", FALSE, "builtins")

Handles ==
  {hNone, hInt, hInt64, hFloat, hFloat64, hBool, hStr,
   hList, hDict, hArray, hUfunc, hFunc, hObj}

IsHandle(T) == "module" \in DOMAIN T

(***************************************************************************)
(* The delegator registry                                                  *)
(***************************************************************************)

Undefined == "undefined"
NotAFunction == "object"
FactoryIds ==
  {"callee", "default", "builtins.list", "numpy.ndarray", "numpy.ufunc"}

IsFunction(fn) == fn \in FactoryIds

\* A registry: the literal keys it owns, the modules it owns, and the entry
\* of every (module, name) it holds.
Registry(top, mods, entries) == [top |-> top, mods |-> mods, entry |-> entries]

EntryKinds == {"nomodule", "noname", "notfn", "fn"}

EntriesOf(b, n) ==
  LET bl == IF b \in {"notfn", "fn"} THEN {<<"builtins", "list">>} ELSE {}
      nn == IF n \in {"notfn", "fn"}
              THEN {<<"numpy", "ndarray">>, <<"numpy", "ufunc">>} ELSE {}
  IN [k \in bl \cup nn |->
        IF k[1] = "builtins"
          THEN (IF b = "fn" THEN "builtins.list" ELSE NotAFunction)
          ELSE (IF n = "fn" THEN k[1] \o "." \o k[2] ELSE NotAFunction)]

\* DelegatorLoader.load(): module -> name -> factory, the literal key
\* "default", and the literal key "callee" when a callee delegator exists.
load ==
  { Registry((IF c THEN {"callee"} ELSE {}) \cup {"default"},
             (IF b = "nomodule" THEN {} ELSE {"builtins"})
               \cup (IF n = "nomodule" THEN {} ELSE {"numpy"}),
             EntriesOf(b, n)) :
      c \in BOOLEAN, b \in EntryKinds, n \in EntryKinds }

\* getDelegator(type), type a literal key
getDelegatorByKey(reg, key) ==
  IF key \in reg.top THEN key ELSE Undefined

\* getDelegator(type), type a Type Identity {module, name}
getDelegatorByType(reg, type) ==
  IF type.module \in reg.mods
    THEN (IF <<type.module, type.name>> \in DOMAIN reg.entry
            THEN reg.entry[<<type.module, type.name>>]
            ELSE Undefined)
    ELSE Undefined

(***************************************************************************)
(* wrap                                                                    *)
(***************************************************************************)

\* getTypeInfo(T): the module and the name of T's runtime type
getTypeInfo(T) == [module |-> T.module, name |-> T.name]

\* a faulty list of primitive names: int64 is forgotten
PrimitiveNamesWithoutInt64 == {"int", "float", "float64", "bool", "str"}

\* the names wrap converts to a host primitive
PrimitiveNames == {"int", "int64", "float", "float64", "bool", "str"}

\* T.toPrimitive(): the host primitive of a foreign int/float/bool/str
JsTypeOf(name) ==
  CASE name \in {"int", "float", "float64"} -> "number"
    [] name = "int64" -> "bigint"
    [] name = "bool" -> "boolean"
    [] OTHER -> "string"

toPrimitive(T) == [prim |-> JsTypeOf(T.name), repr |-> T.val]

IsNoneType(type) == type.module = "builtins" /\ type.name = "NoneType"

\* a faulty selection: the delegator of the type is preferred to "callee"
SelectDelegatorTypeFirst(reg, T) ==
  LET byType == getDelegatorByType(reg, getTypeInfo(T))
      fn == IF IsFunction(byType) \/ ~T.callable
              THEN byType ELSE getDelegatorByKey(reg, "callee")
  IN IF ~IsFunction(fn) THEN getDelegatorByKey(reg, "default") ELSE fn

\* the factory wrap selects for a handle that becomes a proxy
SelectDelegator(reg, T) ==
  LET fn == IF T.callable
              THEN getDelegatorByKey(reg, "callee")
              ELSE getDelegatorByType(reg, getTypeInfo(T))
  IN IF ~IsFunction(fn) THEN getDelegatorByKey(reg, "default") ELSE fn

\* _internalWrap(T, src): the proxy over target src holding handle T
internalWrap(T, src) == [proxy |-> T, target |-> src]

IsProxy(v) == "proxy" \in DOMAIN v

\* wrap(T): the value handed to host code
wrap(reg, T) ==
  IF ~IsHandle(T) THEN T
  ELSE IF IsNoneType(getTypeInfo(T)) THEN JsNull
  ELSE IF getTypeInfo(T).name \in PrimitiveNames THEN toPrimitive(T)
  ELSE internalWrap(T, SelectDelegator(reg, T))

\* the factory calls fn(T, wrap) that wrap(T) makes
wrapFactoryCalls(reg, T) ==
  IF IsProxy(wrap(reg, T))
    THEN << [factory |-> SelectDelegator(reg, T), handle |-> T,
             wrapFn |-> "wrap"] >>
    ELSE << >>

\* the proxies wrap(T) creates (and marks on the handle, index.js:83)
wrapProxies(reg, T) ==
  IF IsProxy(wrap(reg, T)) THEN {wrap(reg, T)} ELSE {}


NoWrap == [arg |-> JsUndefined, result |-> JsUndefined, n |-> 0]

\* the module's own proxy: builtins = _internalWrap(pyInst.builtins()),
\* built over the default target {} without going through wrap
builtins == internalWrap(hBuiltins, "{}")

WrapInit ==
  /\ proxies = {builtins}
  /\ factoryCalls = << >>
  /\ lastWrap = NoWrap

(***************************************************************************)
(* The proxy's get and set traps                                           *)
(***************************************************************************)

\* A member name: a string (its characters) or a symbol.
Str(chars) == [sym |-> FALSE, s |-> chars]
Sym(chars) == [sym |-> TRUE, s |-> chars]

N0 == Str(<<"0">>)
N07 == Str(<<"0", "7">>)
Nx == Str(<<"x">>)
NtoString == Str(<<"t", "o", "S", "t", "r", "i", "n", "g">>)
NsymTag == Sym(<<"t", "a", "g">>)

Names == {N0, N07, Nx, NtoString, NsymTag}

\* the names the foreign object may have an attribute under
AttrNames == {N0, Nx, NtoString}

\* the own properties _internalWrap defines on the target that Names holds,
\* and the properties of target.constructor.prototype
OwnProperties == {NtoString}
PrototypeProperties == {NtoString}

Digits == {"0", "1", "2", "3", "4", "5", "6", "7", "8", "9"}

DigitValue(c) ==
  CASE c = "0" -> 0 [] c = "1" -> 1 [] c = "2" -> 2 [] c = "3" -> 3
    [] c = "4" -> 4 [] c = "5" -> 5 [] c = "6" -> 6 [] c = "7" -> 7
    [] c = "8" -> 8 [] c = "9" -> 9

\* /^[0-9]+$/.test(name)
IsIndexName(name) ==
  /\ ~name.sym
  /\ Len(name.s) > 0
  /\ \A i \in 1..Len(name.s) : name.s[i] \in Digits

\* parseInt(name, 10) of a name of digits
RECURSIVE parseInt(_)
parseInt(chars) ==
  IF chars = << >> THEN 0
  ELSE 10 * parseInt(SubSeq(chars, 1, Len(chars) - 1))
         + DigitValue(chars[Len(chars)])

\* The key of a foreign item: an integer index or a member name.
NoName == Str(<< >>)
IntKey(n) == [int |-> n, name |-> NoName]
NameKey(name) == [int |-> -1, name |-> name]

Keys == {IntKey(0), IntKey(7), NameKey(Nx), NameKey(NtoString), NameKey(NsymTag)}

\* no attribute / no item under that name or key
Absent == [absent |-> TRUE]

\* the failure sentinel of __setitem__ and __setattr__
Failure == -1

Call(f, key, ret) == [f |-> f, key |-> key, ret |-> ret]

\* T.__hasattr__(name)
hasattr(at, name) == name \in DOMAIN at /\ at[name] # Absent

\* a faulty lookup order: the item of that name is tried before the attribute
GetForeignItemFirst(at, it, name) ==
  IF ~name.sym /\ IsIndexName(name)
    THEN LET k == IntKey(parseInt(name.s))
         IN IF it[k] = Absent
              THEN [calls |-> <<Call("__getitem__", k, 0)>>, throws |-> TRUE,
                    value |-> JsUndefined]
              ELSE [calls |-> <<Call("__getitem__", k, 0)>>, throws |-> FALSE,
                    value |-> it[k]]
  ELSE IF it[NameKey(name)] # Absent
    THEN [calls |-> <<Call("__getitem__", NameKey(name), 0)>>,
          throws |-> FALSE, value |-> it[NameKey(name)]]
  ELSE IF ~name.sym /\ hasattr(at, name)
    THEN [calls |-> <<Call("__getitem__", NameKey(name), 0),
                      Call("__hasattr__", NameKey(name), 0),
                      Call("__getattr__", NameKey(name), 0)>>,
          throws |-> FALSE, value |-> at[name]]
  ELSE [calls |-> <<Call("__getitem__", NameKey(name), 0)>>,
        throws |-> FALSE, value |-> JsUndefined]

\* `Enter the Python world`: the part of the get trap after the own-property
\* check. at, it: the foreign attributes and items.
GetForeign(at, it, name) ==
  IF ~name.sym /\ IsIndexName(name)
    THEN LET k == IntKey(parseInt(name.s))
         IN IF it[k] = Absent
              THEN [calls |-> <<Call("__getitem__", k, 0)>>, throws |-> TRUE,
                    value |-> JsUndefined]
              ELSE [calls |-> <<Call("__getitem__", k, 0)>>, throws |-> FALSE,
                    value |-> it[k]]
  ELSE IF ~name.sym /\ hasattr(at, name)
    THEN [calls |-> <<Call("__hasattr__", NameKey(name), 0),
                      Call("__getattr__", NameKey(name), 0)>>,
          throws |-> FALSE, value |-> at[name]]
  ELSE LET probe == IF name.sym THEN << >>
                    ELSE <<Call("__hasattr__", NameKey(name), 0)>>
       IN \* the failure of the item lookup is caught and swallowed
          [calls |-> probe \o <<Call("__getitem__", NameKey(name), 0)>>,
           throws |-> FALSE,
           value |-> IF it[NameKey(name)] = Absent
                       THEN JsUndefined ELSE it[NameKey(name)]]

\* the get trap: an own or one-level inherited property of the target wins
GetTrap(at, it, name) ==
  IF name \in OwnProperties \/ name \in PrototypeProperties
    THEN [calls |-> << >>, throws |-> FALSE, value |-> [own |-> name]]
    ELSE GetForeign(at, it, name)

\* a faulty set trap: the attribute check comes before the index check
SetTrapAttrFirst(at, name, ri, ra) ==
  IF ~name.sym /\ hasattr(at, name)
    THEN [calls |-> <<Call("__hasattr__", NameKey(name), 0),
                      Call("__setattr__", NameKey(name), ra)>>,
          result |-> ra # Failure]
  ELSE IF ~name.sym /\ IsIndexName(name)
    THEN [calls |-> <<Call("__setitem__", IntKey(parseInt(name.s)), ri)>>,
          result |-> ri # Failure]
  ELSE [calls |-> <<Call("__setitem__", NameKey(name), ri)>>
                   \o (IF ri = Failure
                         THEN <<Call("__setattr__", NameKey(name), ra)>>
                         ELSE << >>),
        result |-> (IF ri = Failure THEN ra ELSE ri) # Failure]

\* the set trap. ri, ra: what the foreign __setitem__ and __setattr__ return.
SetTrap(at, name, ri, ra) ==
  IF ~name.sym /\ IsIndexName(name)
    THEN [calls |-> <<Call("__setitem__", IntKey(parseInt(name.s)), ri)>>,
          result |-> ri # Failure]
  ELSE IF ~name.sym /\ hasattr(at, name)
    THEN [calls |-> <<Call("__hasattr__", NameKey(name), 0),
                      Call("__setattr__", NameKey(name), ra)>>,
          result |-> ra # Failure]
  ELSE LET probe == IF name.sym THEN << >>
                    ELSE <<Call("__hasattr__", NameKey(name), 0)>>
       IN [calls |-> probe \o <<Call("__setitem__", NameKey(name), ri)>>
                       \o (IF ri = Failure
                             THEN <<Call("__setattr__", NameKey(name), ra)>>
                             ELSE << >>),
           result |-> (IF ri = Failure THEN ra ELSE ri) # Failure]

\* the foreign object after the calls of a trap: a mutation that did not
\* return the failure sentinel took effect
RECURSIVE ApplyCalls(_, _, _)
ApplyCalls(store, calls, value) ==
  IF calls = << >> THEN store
  ELSE LET c == Head(calls)
           next ==
             IF c.ret = Failure THEN store
             ELSE IF c.f = "__setitem__" /\ c.key \in DOMAIN store.items
               THEN [store EXCEPT !.items[c.key] = value]
             ELSE IF c.f = "__setattr__" /\ c.key.name \in DOMAIN store.attrs
               THEN [store EXCEPT !.attrs[c.key.name] = value]
             ELSE store
       IN ApplyCalls(next, Tail(calls), value)

\* the registry of the specifications that do not vary it
LoadedRegistry ==
  Registry({"callee", "default"}, {"builtins", "numpy"}, EntriesOf("fn", "fn"))

NoOp == [op |-> "none", name |-> NoName, calls |-> << >>, throws |-> FALSE,
         value |-> JsUndefined, result |-> FALSE]

ProxyIdle ==
  /\ attrs = [n \in AttrNames |-> Absent]
  /\ items = [k \in Keys |-> Absent]
  /\ lastOp = NoOp

\* host code reads proxy[name]
Get(name) ==
  LET r == GetTrap(attrs, items, name)
      w == IF r.throws \/ "own" \in DOMAIN r.value
             THEN r.value ELSE wrap(delegators, r.value)
  IN /\ lastOp' = [op |-> "get", name |-> name, calls |-> r.calls,
                   throws |-> r.throws, value |-> w, result |-> FALSE]
     /\ proxies' = proxies \cup (IF IsProxy(w) THEN {w} ELSE {})
     /\ factoryCalls' = (IF IsProxy(w)
                           THEN wrapFactoryCalls(delegators, r.value)
                           ELSE << >>)
     /\ UNCHANGED <<delegators, lastWrap, attrs, items, iterVars, withVars, evalVars>>

\* host code assigns proxy[name] = value
Set(name, value, ri, ra) ==
  LET r == SetTrap(attrs, name, ri, ra)
      after == ApplyCalls([attrs |-> attrs, items |-> items], r.calls, value)
  IN /\ lastOp' = [op |-> "set", name |-> name, calls |-> r.calls,
                   throws |-> FALSE, value |-> value, result |-> r.result]
     /\ attrs' = after.attrs
     /\ items' = after.items
     /\ UNCHANGED <<wrapVars, iterVars, withVars, evalVars>>

\* the values the foreign object holds at the start, and those host code sets
SetValues == {hList}

InitProxy ==
  /\ delegators = LoadedRegistry
  /\ WrapInit
  /\ attrs \in [AttrNames -> {Absent, hInt}]
  /\ items \in [Keys -> {Absent, hList}]
  /\ lastOp = NoOp
  /\ IterIdle
  /\ WithIdle
  /\ EvalIdle

NextProxy ==
  \/ \E name \in Names : Get(name)
  \/ \E name \in Names, value \in SetValues, ri \in {Failure, 0},
        ra \in {Failure, 0} : Set(name, value, ri, ra)

SpecProxy == InitProxy /\ [][NextProxy]_vars

(***************************************************************************)
(* The Symbol.iterator hook                                                *)
(***************************************************************************)

MaxSeqLen == 3
MaxIters == 2
MaxSteps == 5

\* the element the foreign side stores at position i (from 0)
ElemAt(i) == IF i % 2 = 0 THEN hInt ELSE hList

\* the foreign sequence of length n
SeqOfLen(n) == [i \in 1..n |-> ElemAt(i - 1)]

RECURSIVE TotalSteps(_)
TotalSteps(its) ==
  IF its = << >> THEN 0
  ELSE Len(Head(its).results) + TotalSteps(Tail(its))

\* An iterator object: which branch built it, its IterIdxForSeqSymbol
\* property (hasIdx: the property is a number), and what next() returned.
NewIterObject(kind) ==
  [kind |-> kind, hasIdx |-> FALSE, idx |-> 0, results |-> << >>]

\* one result of next(); at: the cursor position item-get was called with
IterResult(done, at, value) == [done |-> done, at |-> at, value |-> value]

\* builtins.len(T)
len(q) == Len(q)

\* T.__getitem__(index) on the foreign sequence (indices from 0)
getitem(q, index) == q[index + 1]

\* a faulty cursor: the first position is 1
AdvanceCursorFromOne(it) == IF it.hasIdx THEN it.idx + 1 ELSE 1

\* the cursor after the first statement of the sequence branch's next()
AdvanceCursor(it) == IF it.hasIdx THEN it.idx + 1 ELSE 0

\* next() of the sequence branch
SeqNext(reg, q, it) ==
  LET index == AdvanceCursor(it)
      lengthOfSeq == len(q)
      res == IF index >= lengthOfSeq
               THEN IterResult(TRUE, index, JsUndefined)
               ELSE IterResult(FALSE, index, wrap(reg, getitem(q, index)))
  IN [it EXCEPT !.hasIdx = TRUE, !.idx = index,
                !.results = Append(@, res)]

\* T.next() of a foreign iterator at position pos over q
PyNext(q, pos) ==
  IF pos >= Len(q) THEN [done |-> TRUE, value |-> JsUndefined]
  ELSE [done |-> FALSE, value |-> q[pos + 1]]

\* next() of the iterator branch
IterNextOf(reg, q, pos, it) ==
  LET curr == PyNext(q, pos)
  IN [it EXCEPT !.results =
        Append(@, IterResult(curr.done, pos, wrap(reg, curr.value)))]

\* host code calls proxy[Symbol.iterator]()
Iterate ==
  /\ Len(iters) < MaxIters
  /\ IF cap.iterator
       THEN iters' = Append(iters, NewIterObject("iterator"))
                /\ UNCHANGED iterError
       ELSE IF cap.sequence
         THEN iters' = Append(iters, NewIterObject("sequence"))
                /\ UNCHANGED iterError
         ELSE iterError' = TRUE /\ UNCHANGED iters
  /\ UNCHANGED <<wrapVars, proxyVars, withVars, evalVars, seq, cap, pyPos, mutated>>

\* host code calls next() on the i-th iterator object
IterNext(i) ==
  /\ i \in 1..Len(iters)
  /\ TotalSteps(iters) < MaxSteps
  /\ LET it == IF iters[i].kind = "iterator"
                 THEN IterNextOf(delegators, seq, pyPos, iters[i])
                 ELSE SeqNext(delegators, seq, iters[i])
         v == it.results[Len(it.results)].value
     IN /\ iters' = [iters EXCEPT ![i] = it]
        /\ pyPos' = IF iters[i].kind = "iterator" /\ pyPos < Len(seq)
                      THEN pyPos + 1 ELSE pyPos
        /\ proxies' = proxies \cup (IF IsProxy(v) THEN {v} ELSE {})
        /\ factoryCalls' =
             (IF IsProxy(v)
                THEN wrapFactoryCalls(delegators, v.proxy) ELSE << >>)
  /\ UNCHANGED <<delegators, lastWrap, proxyVars, withVars, evalVars, seq, cap,
                 mutated, iterError>>

\* the foreign side appends an element to the sequence
ForeignAppend ==
  /\ Len(seq) < MaxSeqLen
  /\ seq' = Append(seq, ElemAt(Len(seq)))
  /\ mutated' = TRUE
  /\ UNCHANGED <<wrapVars, proxyVars, withVars, evalVars, cap, pyPos, iters,
                 iterError>>

\* the foreign side removes the last element of the sequence
ForeignPop ==
  /\ Len(seq) > 0
  /\ seq' = SubSeq(seq, 1, Len(seq) - 1)
  /\ mutated' = TRUE
  /\ UNCHANGED <<wrapVars, proxyVars, withVars, evalVars, cap, pyPos, iters,
                 iterError>>

InitIter ==
  /\ delegators = LoadedRegistry
  /\ WrapInit
  /\ ProxyIdle
  /\ seq \in {SeqOfLen(n) : n \in 0..MaxSeqLen}
  /\ cap \in [iterator : BOOLEAN, sequence : BOOLEAN]
  /\ pyPos = 0
  /\ iters = << >>
  /\ mutated = FALSE
  /\ iterError = FALSE
  /\ WithIdle
  /\ EvalIdle

NextIter ==
  \/ Iterate
  \/ \E i \in 1..MaxIters : IterNext(i)
  \/ ForeignAppend
  \/ ForeignPop

SpecIter == InitIter /\ [][NextIter]_vars

(***************************************************************************)
(* The `with` context-manager adapter                                      *)
(***************************************************************************)

MaxHostSteps == 2

\* what fn (or __enter__) can throw or reject with: undefined, a host Error
\* (no ptype/pvalue/ptrace), an error of the foreign runtime
Thrown == {Error("undefined"), Error("jsError"), Error("pyError")}

\* err.ptype, err.pvalue, err.ptrace of a thrown value that has properties
ErrField(err, field) ==
  IF err = Error("pyError") THEN field ELSE "undefined"

\* asHandleObject(T)
asHandleObject(T) == [handle |-> T]

NullTriple == <<JsNull, JsNull, JsNull>>

ExcTriple(err) ==
  << asHandleObject(ErrField(err, "ptype")),
     asHandleObject(ErrField(err, "pvalue")),
     asHandleObject(ErrField(err, "ptrace")) >>

Event(ev) == [ev |-> ev, args |-> << >>, ret |-> "none"]
ExitEvent(args, ret) == [ev |-> "exit", args |-> args, ret |-> ret]

\* what a call of ctx.__exit__ does: return truthy, return falsy, raise
ExitOutcomes == {"truthy", "falsy", "raises"}

Settled(state, err) == [state |-> state, err |-> err]

\* the catch block (index.js:449-457) and the finally block after it.
\* Reading err.ptype of a null or undefined err throws a TypeError before
\* __exit__ is called; hitException is already true.
CatchBlock(err, exitOut) ==
  IF err = Error("undefined")
    THEN [events |-> << >>,
          result |-> Settled("rejected", Error("TypeError: ptype"))]
    ELSE [events |-> <<ExitEvent(ExcTriple(err), exitOut)>>,
          result |-> IF exitOut = "raises"
                       THEN Settled("rejected", Error("exitError"))
                       ELSE IF exitOut = "truthy"
                         THEN Settled("resolved", NoError)
                         ELSE Settled("rejected", err)]

\* the finally block when no exception was hit (index.js:458-462)
FinallyBlock(exitOut) ==
  [events |-> <<ExitEvent(NullTriple, exitOut)>>,
   result |-> IF exitOut = "raises"
                THEN Settled("rejected", Error("exitError"))
                ELSE Settled("resolved", NoError)]

\* a faulty await: a value that is no promise does not suspend
AwaitSuspendsOnPromiseOnly(fnKind) == fnKind \in {"resolves", "rejects"}

\* `await v` suspends the async function, whether or not v is a promise
AwaitSuspends(fnKind) == TRUE

\* host code calls with(ctx, fn): everything up to the return to the caller
WithCall(a, exitOut) ==
  /\ wpc = "idle"
  /\ wcall' = a
  /\ UNCHANGED hostSteps
  /\ IF ~a.hasEnter \/ ~a.hasExit
       THEN /\ wtrace' = <<Event("return")>>
            /\ wresult' = Settled("threw", Error("TypeError: ctx"))
            /\ wpc' = "done"
            /\ fnPromise' = "none"
     ELSE IF a.fnKind = "notfn"
       THEN /\ wtrace' = <<ExitEvent(NullTriple, exitOut), Event("return")>>
            /\ wresult' = Settled("threw",
                            IF exitOut = "raises" THEN Error("exitError")
                            ELSE Error("TypeError: fn"))
            /\ wpc' = "done"
            /\ fnPromise' = "none"
     ELSE IF a.enterErr # NoError
       THEN LET c == CatchBlock(a.enterErr, exitOut)
            IN /\ wtrace' = <<Event("enter")>> \o c.events
                              \o <<Event("return")>>
               /\ wresult' = c.result
               /\ wpc' = "done"
               /\ fnPromise' = "none"
     ELSE IF a.fnKind = "throws"
       THEN LET c == CatchBlock(a.err, exitOut)
            IN /\ wtrace' = <<Event("enter"), Event("fn")>> \o c.events
                              \o <<Event("return")>>
               /\ wresult' = c.result
               /\ wpc' = "done"
               /\ fnPromise' = "none"
     ELSE IF AwaitSuspends(a.fnKind)
       THEN /\ wtrace' = <<Event("enter"), Event("fn"), Event("return")>>
            /\ wresult' = Settled("pending", NoError)
            /\ wpc' = "awaiting"
            /\ fnPromise' = IF a.fnKind = "returns" THEN "value" ELSE "pending"
     ELSE LET f == FinallyBlock(exitOut)
          IN /\ wtrace' = <<Event("enter"), Event("fn")>> \o f.events
                            \o <<Event("return")>>
             /\ wresult' = f.result
             /\ wpc' = "done"
             /\ fnPromise' = "value"
  /\ UNCHANGED <<wrapVars, proxyVars, iterVars, evalVars>>

\* the promise fn returned settles (fn has passed its own yield points)
FnSettles ==
  /\ wpc = "awaiting"
  /\ fnPromise = "pending"
  /\ fnPromise' = IF wcall.fnKind = "rejects" THEN "rejected" ELSE "resolved"
  /\ wtrace' = Append(wtrace, Event("fnSettles"))
  /\ UNCHANGED <<wpc, wcall, wresult, hostSteps>>
  /\ UNCHANGED <<wrapVars, proxyVars, iterVars, evalVars>>

\* the async function resumes after its await, in a later microtask
AwaitResume(exitOut) ==
  /\ wpc = "awaiting"
  /\ fnPromise \in {"value", "resolved", "rejected"}
  /\ LET r == IF fnPromise = "rejected"
                THEN CatchBlock(wcall.err, exitOut)
                ELSE FinallyBlock(exitOut)
     IN /\ wtrace' = wtrace \o r.events
        /\ wresult' = r.result
  /\ wpc' = "done"
  /\ UNCHANGED <<wcall, fnPromise, hostSteps>>
  /\ UNCHANGED <<wrapVars, proxyVars, iterVars, evalVars>>

\* other host code runs: the caller's code after `with` returned, or
\* another task
HostStep ==
  /\ wpc \in {"awaiting", "done"}
  /\ hostSteps < MaxHostSteps
  /\ hostSteps' = hostSteps + 1
  /\ wtrace' = Append(wtrace, Event("host"))
  /\ UNCHANGED <<wpc, wcall, wresult, fnPromise>>
  /\ UNCHANGED <<wrapVars, proxyVars, iterVars, evalVars>>

FnKinds == {"notfn", "returns", "throws", "resolves", "rejects"}

InitWith ==
  /\ delegators = LoadedRegistry
  /\ WrapInit
  /\ ProxyIdle
  /\ IterIdle
  /\ WithIdle
  /\ EvalIdle

NextWith ==
  \/ \E missing \in SUBSET {"__enter__", "__exit__"}, fnKind \in FnKinds,
        enterErr \in Thrown \cup {NoError}, err \in Thrown,
        exitOut \in ExitOutcomes :
       WithCall(WithArgs("__enter__" \notin missing, "__exit__" \notin missing,
                         fnKind, enterErr, err), exitOut)
  \/ FnSettles
  \/ \E exitOut \in ExitOutcomes : AwaitResume(exitOut)
  \/ HostStep

SpecWith == InitWith /\ [][NextWith]_vars

(***************************************************************************)
(* eval                                                                    *)
(***************************************************************************)

MaxParams == 2

\* A text is a sequence of tokens: "\n", " " and words. A namespace is a set
\* of bindings.
Binding(k, v) == [k |-> k, v |-> v]

\* the reference of the shared global namespace in the heap
GlobalsRef == 1

\* a faulty copy: the namespace itself is returned
copyAlias(h, ref) == [heap |-> h, ref |-> ref]

\* copy(T): copy.copy of a namespace, a new namespace with the same bindings
copy(h, ref) == [heap |-> Append(h, h[ref]), ref |-> Len(h) + 1]

\* env.__setitem__(k, v) on the namespace at ref
setitem(h, ref, k, v) ==
  [h EXCEPT ![ref] = {b \in @ : b.k # k} \cup {Binding(k, v)}]

\* `boa_eval_var_${idx}`
GenName(idx) == "boa_eval_var_" \o ToString(idx)

\* strs.reduce(...) of the template branch, from piece i on
RECURSIVE Reduce(_, _, _, _)
Reduce(strs, params, i, acc) ==
  IF i > Len(strs) THEN acc
  ELSE LET next == acc.src \o strs[i]
       IN IF acc.idx < Len(params)
            THEN LET k == GenName(acc.idx)
                     v == params[acc.idx + 1]
                 IN Reduce(strs, params, i + 1,
                      [src |-> Append(next, k),
                       idx |-> acc.idx + 1,
                       heap |-> setitem(acc.heap, acc.env, k, v),
                       env |-> acc.env,
                       calls |-> Append(acc.calls,
                                   [ns |-> acc.env, key |-> k, value |-> v])])
            ELSE Reduce(strs, params, i + 1, [acc EXCEPT !.src = next])

\* src.split('\n')
RECURSIVE Split(_, _)
Split(text, line) ==
  IF text = << >> THEN <<line>>
  ELSE IF Head(text) = "\n" THEN <<line>> \o Split(Tail(text), << >>)
  ELSE Split(Tail(text), Append(line, Head(text)))

\* utils.notEmpty: the line holds more than blanks
notEmpty(line) == \E i \in 1..Len(line) : line[i] # " "

RECURSIVE LeadingBlanks(_)
LeadingBlanks(line) ==
  IF line = << >> \/ Head(line) # " " THEN 0
  ELSE 1 + LeadingBlanks(Tail(line))

\* utils.getIndent: the leading indentation common to the lines
getIndent(lines) ==
  IF lines = << >> THEN 0
  ELSE LET ns == {LeadingBlanks(lines[i]) : i \in 1..Len(lines)}
       IN CHOOSE n \in ns : \A m \in ns : n <= m

\* utils.removeIndent(indent)
removeIndent(indent, line) == SubSeq(line, indent + 1, Len(line))

\* the lines handed to pyInst.eval (joined there by '\n')
Normalize(src) ==
  LET lines == SelectSeq(Split(src, << >>), notEmpty)
      indent == getIndent(lines)
  IN [i \in 1..Len(lines) |-> removeIndent(indent, lines[i])]

\* pyInst.eval(code, {globals, locals}): a line `name = ...` binds name in
\* the namespace it runs in
RECURSIVE PyExec(_, _, _)
PyExec(h, ref, lines) ==
  IF lines = << >> THEN h
  ELSE LET l == Head(lines)
           h1 == IF Len(l) >= 3 /\ l[2] = "="
                   THEN setitem(h, ref, l[1], "computed") ELSE h
       IN PyExec(h1, ref, Tail(lines))

\* the namespace eval runs in, the source it assembles and the bindings it
\* makes. isString: strs is a plain string (then strs = <<that string>>).
EvalPrepare(h, isString, strs, params) ==
  IF isString \/ Len(strs) = 1
    THEN [src |-> strs[1], idx |-> 0, heap |-> h, env |-> GlobalsRef,
          calls |-> << >>]
    ELSE LET c == copy(h, GlobalsRef)
         IN Reduce(strs, params, 1,
              [src |-> << >>, idx |-> 0, heap |-> c.heap, env |-> c.ref,
               calls |-> << >>])

\* the pieces of a template with n pieces
Piece(i, n) ==
  IF n = 1 THEN <<"x", "=", "1">>
  ELSE IF i = 1 THEN <<"\n", " ", " ", "x", "=">>
  ELSE IF i = n THEN <<"\n", " ", " ", " ", "y", "=", "2", "\n">>
  ELSE <<"+">>

Template(n) == [i \in 1..n |-> Piece(i, n)]

PlainSources == { <<"z", "=", "3">>, <<" ", "y", "=", "2", "\n", " ", "x">> }

ParamValues == {"p1", "p2"}

RECURSIVE ParamsUpTo(_)
ParamsUpTo(n) ==
  IF n = 0 THEN {<< >>}
  ELSE ParamsUpTo(n - 1)
         \cup {Append(q, v) : q \in {r \in ParamsUpTo(n - 1) : Len(r) = n - 1},
                              v \in ParamValues}

\* host code calls eval(strs, ...params); res: the handle pyInst.eval returns
Eval(isString, strs, params, res) ==
  LET pre == EvalPrepare(<<heap[GlobalsRef]>>, isString, strs, params)
      code == Normalize(pre.src)
      after == PyExec(pre.heap, pre.env, code)
      w == wrap(delegators, res)
  IN /\ heap' = after
     /\ lastEval' = [shape |-> IF isString THEN "string" ELSE "template",
                     nstrs |-> Len(strs), params |-> params, env |-> pre.env,
                     code |-> code, setitems |-> pre.calls,
                     before |-> heap[GlobalsRef],
                     execGlobals |-> pre.env, execLocals |-> pre.env,
                     result |-> w]
     /\ proxies' = proxies \cup wrapProxies(delegators, res)
     /\ factoryCalls' = wrapFactoryCalls(delegators, res)
     /\ UNCHANGED <<delegators, lastWrap, proxyVars, iterVars, withVars>>

InitEval ==
  /\ delegators = LoadedRegistry
  /\ WrapInit
  /\ ProxyIdle
  /\ IterIdle
  /\ WithIdle
  /\ EvalIdle

NextEval ==
  \/ \E src \in PlainSources, res \in {hNone, hList} :
       Eval(TRUE, <<src>>, << >>, res)
  \/ \E n \in 1..(MaxParams + 1), params \in ParamsUpTo(MaxParams),
        res \in {hNone, hList} :
       Eval(FALSE, Template(n), params, res)

SpecEval == InitEval /\ [][NextEval]_vars

\* host code obtains wrap(T) for a handle or a host null/undefined
Wrap(T) ==
  /\ lastWrap' = [arg |-> T, result |-> wrap(delegators, T), n |-> 1]
  /\ factoryCalls' = wrapFactoryCalls(delegators, T)
  /\ proxies' = proxies \cup wrapProxies(delegators, T)
  /\ UNCHANGED <<delegators, proxyVars, iterVars, withVars, evalVars>>

InitWrap ==
  /\ delegators \in load
  /\ WrapInit
  /\ ProxyIdle
  /\ IterIdle
  /\ WithIdle
  /\ EvalIdle

NextWrap ==
  \E T \in Handles \cup {JsNull, JsUndefined} : Wrap(T)

SpecWrap == InitWrap /\ [][NextWrap]_vars

(***************************************************************************)
(* Claims about wrap                                                       *)
(***************************************************************************)

NoneOrPrimitive(T) ==
  \/ (T.module = "builtins" /\ T.name = "NoneType")
  \/ T.name \in {"int", "int64", "float", "float64", "bool", "str"}

\* C6: wrap never produces a proxy for a handle of the None type or of a
\* primitive-producing type (int, int64, float, float64, bool, str): the None
\* type maps to host null, a primitive type to its to-primitive conversion
\* (the foreign int 42 to the host number 42), and no proxy built so far
\* holds a handle of one of these types.
C6_NoProxyForNoneOrPrimitive ==
  /\ \A p \in proxies : ~NoneOrPrimitive(p.proxy)
  /\ (lastWrap.n = 1 /\ IsHandle(lastWrap.arg) /\ NoneOrPrimitive(lastWrap.arg))
       => /\ ~IsProxy(lastWrap.result)
          /\ factoryCalls = << >>
          /\ (lastWrap.arg.name = "NoneType") => lastWrap.result = JsNull
          /\ (lastWrap.arg.name # "NoneType")
               => /\ "prim" \in DOMAIN lastWrap.result
                  /\ lastWrap.result.repr = lastWrap.arg.val
          /\ (lastWrap.arg = hInt)
               => lastWrap.result = [prim |-> "number", repr |-> "42"]

C6_Witness ==
  /\ lastWrap.n = 1
  /\ lastWrap.arg = hInt64
  /\ lastWrap.result = [prim |-> "bigint", repr |-> "7"]
  /\ \E p \in proxies : p.proxy = hArray

\* the factory the claim says wrap uses for handle T
C9_Expected(T) ==
  IF T.callable
    THEN (IF "callee" \in delegators.top THEN "callee" ELSE "default")
    ELSE IF /\ T.module \in delegators.mods
            /\ <<T.module, T.name>> \in DOMAIN delegators.entry
            /\ delegators.entry[<<T.module, T.name>>] \in FactoryIds
           THEN delegators.entry[<<T.module, T.name>>]
           ELSE "default"

CallsOf(f) == {i \in 1..Len(lastOp.calls) : lastOp.calls[i].f = f}

\* the read of lastOp found an attribute of the requested name on a name
\* that is no own or one-level inherited property of the target
C4_AttributeRead ==
  /\ lastOp.op = "get"
  /\ lastOp.name \notin OwnProperties \cup PrototypeProperties
  /\ lastOp.name \in AttrNames
  /\ attrs[lastOp.name] # Absent

C4_AttributeWins ==
  /\ ~lastOp.throws
  /\ lastOp.value = wrap(delegators, attrs[lastOp.name])
  /\ CallsOf("__getitem__") = {}
  /\ CallsOf("__getattr__") # {}

\* C4 as stated: whenever the foreign handle has an attribute of the
\* requested name (not an own or inherited property), the read returns the
\* wrapped attribute and item-get is not invoked.
C4_AttributeAlwaysFirst ==
  C4_AttributeRead => C4_AttributeWins

\* C4 amended: the same for every requested name that is not a string of
\* decimal digits; a name of digits is resolved by item-get at the parsed
\* index, whether or not an attribute of that name exists.
C4_AttributeFirstUnlessIndex ==
  /\ (C4_AttributeRead /\ lastOp.name \notin {N0, N07}) => C4_AttributeWins
  /\ (lastOp.op = "get" /\ lastOp.name \in {N0, N07})
       => /\ CallsOf("__getitem__") = {1}
          /\ CallsOf("__getattr__") = {}
          /\ CallsOf("__hasattr__") = {}

\* attribute x and no item x: the read of x returns the attribute
C4_Witness ==
  /\ lastOp.op = "get"
  /\ lastOp.name = Nx
  /\ attrs[Nx] = hInt
  /\ items[NameKey(Nx)] = Absent
  /\ lastOp.value = [prim |-> "number", repr |-> "42"]

\* the integer a name of digits stands for
C8_Index(name) == IF name = N0 THEN 0 ELSE 7

\* C8: setting a numeric-string member performs exactly one foreign
\* item-set, at the parsed integer index, and no attribute-set, whether or
\* not the handle has an attribute of that name and whatever the item-set
\* returns; the result is true exactly when the item-set did not return the
\* failure sentinel.
C8_IndexSetIsItemSet ==
  (lastOp.op = "set" /\ lastOp.name \in {N0, N07})
    => /\ Len(lastOp.calls) = 1
       /\ lastOp.calls[1].f = "__setitem__"
       /\ lastOp.calls[1].key = IntKey(C8_Index(lastOp.name))
       /\ lastOp.result = (lastOp.calls[1].ret # -1)

\* proxy[0] = v on a handle that has an attribute "0", the item-set failing
C8_Witness ==
  /\ lastOp.op = "set"
  /\ lastOp.name = N0
  /\ attrs[N0] # Absent
  /\ lastOp.calls = <<Call("__setitem__", IntKey(0), -1)>>
  /\ lastOp.result = FALSE


(***************************************************************************)
(* Claims about iteration                                                  *)
(***************************************************************************)

\* the host value of the element at cursor position i
C5_ValueAt(i) ==
  IF i % 2 = 0 THEN [prim |-> "number", repr |-> "42"]
  ELSE [proxy |-> hList, target |-> "builtins.list"]

\* C5: iterating a proxy whose handle is a sequence and not an iterator,
\* over an unmodified foreign sequence of length n, yields exactly n wrapped
\* values fetched at cursor positions 0, 1, ..., n-1 in that order and then
\* signals completion; every fresh iteration starts again at cursor 0.
C5_SequenceIteration ==
  (cap.sequence /\ ~cap.iterator /\ ~mutated)
    => \A i \in 1..Len(iters) :
         /\ iters[i].kind = "sequence"
         /\ \A j \in 1..Len(iters[i].results) :
              LET r == iters[i].results[j]
              IN IF j <= Len(seq)
                   THEN r = [done |-> FALSE, at |-> j - 1,
                             value |-> C5_ValueAt(j - 1)]
                   ELSE r.done /\ r.value = JsUndefined

C5_Witness ==
  /\ ~mutated
  /\ Len(seq) = 3
  /\ Len(iters) = 2
  /\ Len(iters[1].results) = 4
  /\ iters[1].results[3].at = 2
  /\ iters[1].results[4].done
  /\ Len(iters[2].results) = 1
  /\ iters[2].results[1].at = 0

\* the results of iterator it that yielded a value
C10_Yields(it) == SelectSeq(it.results, LAMBDA r : ~r.done)

\* C10: once a sequence-driven iterator object has returned done = true,
\* every later next() on it returns done = true, whatever the foreign side
\* does to the sequence in between, and the cursor positions of the
\* elements it yields are 0, 1, 2, ... with none skipped or repeated.
C10_CompletionIsPermanent ==
  \A i \in 1..Len(iters) :
    (iters[i].kind = "sequence")
      => /\ \A j, k \in 1..Len(iters[i].results) :
              (j < k /\ iters[i].results[j].done) => iters[i].results[k].done
         /\ \A m \in 1..Len(C10_Yields(iters[i])) :
              C10_Yields(iters[i])[m].at = m - 1

(***************************************************************************)
(* Claims about `with`                                                     *)
(***************************************************************************)

ExitIndices == {i \in 1..Len(wtrace) : wtrace[i].ev = "exit"}
ReturnIndices == {i \in 1..Len(wtrace) : wtrace[i].ev = "return"}
HostIndices == {i \in 1..Len(wtrace) : wtrace[i].ev = "host"}

\* C1: on every exit path of with(ctx, fn) (ctx invalid, fn not callable,
\* enter raises, fn returns, fn's promise resolves, fn throws or rejects,
\* exit itself raises) ctx.__exit__ is invoked exactly once: never twice,
\* and once by the time the invocation is over.
C1_ExitExactlyOnce ==
  /\ Cardinality(ExitIndices) <= 1
  /\ (wpc = "done") => Cardinality(ExitIndices) = 1

\* fn is callable on a valid ctx whose enter does not raise, and fn throws
\* or its promise rejects
C2_FnFails ==
  /\ wpc = "done"
  /\ wcall.hasEnter /\ wcall.hasExit
  /\ wcall.enterErr = NoError
  /\ wcall.fnKind \in {"throws", "rejects"}

\* C2: when fn throws, or its promise rejects, with error e, exit is invoked
\* exactly once with a triple of handle markers; if exit returns falsy the
\* returned promise rejects with the same e, if truthy it resolves.
C2_ThrowReachesExit ==
  C2_FnFails
    => /\ Cardinality(ExitIndices) = 1
       /\ \A i \in ExitIndices :
            /\ \A k \in 1..3 : "handle" \in DOMAIN wtrace[i].args[k]
            /\ (wtrace[i].ret = "falsy")
                 => wresult = [state |-> "rejected", err |-> wcall.err]
            /\ (wtrace[i].ret = "truthy")
                 => wresult = [state |-> "resolved", err |-> NoError]

\* with(ctx, fn) entered its async body: ctx is valid and fn callable
C3_Entered ==
  /\ wpc # "idle"
  /\ wcall.hasEnter /\ wcall.hasExit
  /\ wcall.fnKind # "notfn"

\* C3 as stated: the adapter has no suspension point of its own, so when fn
\* completes synchronously exit has been invoked by the time `with` returns
\* to its caller.
C3_NoSuspensionOfItsOwn ==
  (C3_Entered /\ wcall.enterErr = NoError /\ wcall.fnKind = "returns")
    => \E i \in ExitIndices : \A r \in ReturnIndices : i < r

\* C3 amended: the adapter suspends once, at its await of fn's result.
\* Enter and fn run back to back inside the call. When fn returns (a value
\* or a promise) `with` returns to its caller right after fn, before exit
\* is invoked: exit runs in a later turn, after any host code that runs in
\* between. When enter or fn throws synchronously no exit is invoked after
\* `with` has returned, and no host code runs before it returns.
C3_SuspendsOnceAtAwait ==
  C3_Entered
    => /\ wtrace[1].ev = "enter"
       /\ (wcall.enterErr = NoError) => wtrace[2].ev = "fn"
       /\ (/\ wcall.enterErr = NoError
           /\ wcall.fnKind \in {"returns", "resolves", "rejects"})
            => /\ wtrace[3].ev = "return"
               /\ \A i \in ExitIndices : i > 3
       /\ (wcall.enterErr # NoError \/ wcall.fnKind = "throws")
            => \A r \in ReturnIndices :
                 /\ \A i \in ExitIndices : i < r
                 /\ \A h \in HostIndices : h > r

\* fn returned a plain value, host code ran, and only then exit was invoked
C3_Witness ==
  /\ C3_Entered
  /\ wcall.enterErr = NoError
  /\ wcall.fnKind = "returns"
  /\ Len(wtrace) = 5
  /\ wtrace[4].ev = "host"
  /\ wtrace[5] = ExitEvent(NullTriple, "truthy")

(***************************************************************************)
(* Claims about eval                                                       *)
(***************************************************************************)

\* the generated name of the interpolated value at position i (from 0)
C7_Name(i) ==
  CASE i = 0 -> "boa_eval_var_0" [] i = 1 -> "boa_eval_var_1"
    [] i = 2 -> "boa_eval_var_2" [] i = 3 -> "boa_eval_var_3"

C7_Names == {C7_Name(i) : i \in 0..3}

\* the last call was a template with k >= 1 interpolated values (k + 1 pieces)
C7_TemplateCall ==
  /\ lastEval.shape = "template"
  /\ Len(lastEval.params) >= 1
  /\ lastEval.nstrs = Len(lastEval.params) + 1

\* C7: eval called as a template with interpolated values binds each value
\* under its own sequentially indexed generated name in a copy of the global
\* namespace, executes with that copy as both globals and locals, and leaves
\* the shared global namespace as it was: it holds no generated binding.
C7_ShadowNamespace ==
  C7_TemplateCall
    => /\ lastEval.env # GlobalsRef
       /\ lastEval.execGlobals = lastEval.env
       /\ lastEval.execLocals = lastEval.env
       /\ Len(lastEval.setitems) = Len(lastEval.params)
       /\ \A i \in 1..Len(lastEval.params) :
            /\ lastEval.setitems[i] =
                 [ns |-> lastEval.env, key |-> C7_Name(i - 1),
                  value |-> lastEval.params[i]]
            /\ Binding(C7_Name(i - 1), lastEval.params[i])
                 \in heap[lastEval.env]
       /\ lastEval.before \subseteq heap[lastEval.env]
       /\ heap[GlobalsRef] = lastEval.before
       /\ \A b \in heap[GlobalsRef] : b.k \notin C7_Names

\* two interpolated values, bound in the copy and absent from the globals
C7_Witness ==
  /\ C7_TemplateCall
  /\ Len(lastEval.params) = 2
  /\ Binding("boa_eval_var_0", "p1") \in heap[lastEval.env]
  /\ Binding("boa_eval_var_1", "p2") \in heap[lastEval.env]
  /\ heap[GlobalsRef] # {}

====
